---------------------------- MODULE Spec2Model ----------------------------
(***************************************************************************)
(* A model of createTransaction (js/src/wallet/createTransaction.ts): the  *)
(* validate-then-build pipeline that turns (payer, recipient, amount,      *)
(* {token, references, memo}) and the answers of the ledger client into a  *)
(* Transaction or a thrown error.                                          *)
(*                                                                         *)
(* Numbers.  TLC's integers are 32 bits wide, the program's are not: a     *)
(* non-negative integer is kept as two limbs in base 10^9, value           *)
(* hi * 10^9 + lo, which holds every magnitude below 2^31 * 10^9 exactly.  *)
(* A BigNumber is [neg, hi, lo, frac]: sign, integer part and the          *)
(* fractional digits (most significant first, no trailing zero, which is   *)
(* how bignumber.js keeps its coefficient).  A JS number and a BN are the  *)
(* same record with frac = << >>.                                          *)
(***************************************************************************)
EXTENDS Integers, Sequences, FiniteSets, TLC

(***************************************************************************)
(* Program constants.                                                      *)
(***************************************************************************)
SOL_DECIMALS == 9
LAMPORTS_PER_SOL == 1000000000
MintLayoutSpan == 82

TOKEN_PROGRAM_ID == "TokenProgram"
ASSOCIATED_TOKEN_PROGRAM_ID == "AssociatedTokenProgram"
SYSTEM_PROGRAM_ID == "SystemProgram"
MEMO_PROGRAM_ID == "MemoSq4gqABAXKb96qnH8TysNcWxMyWCqXgDLGmfcHr"

CreateTransactionError ==
    { "PAYER_NOT_FOUND", "RECIPIENT_NOT_FOUND", "TOKEN_NOT_FOUND",
      "TOKEN_INVALID_PROGRAM", "TOKEN_INVALID_LENGTH",
      "TOKEN_MINT_NOT_INITIALIZED", "AMOUNT_INVALID_DECIMALS",
      "PAYER_ATA_NOT_FOUND", "RECIPIENT_ATA_NOT_FOUND",
      "PAYER_INSUFFICIENT_FUNDS", "PAYER_ATA_INSUFFICIENT_FUNDS" }

\* null / undefined: every optional value of the model is a record or this
Null == [null |-> TRUE]
\* no error thrown (yet)
NoError == "none"

(***************************************************************************)
(* Bounds of the model.                                                    *)
(***************************************************************************)
MaxReferences == 2

(***************************************************************************)
(* Limb arithmetic.                                                        *)
(***************************************************************************)
Base == LAMPORTS_PER_SOL

Mag(x) == <<x.hi, x.lo>>

MagLt(a, b) == a[1] < b[1] \/ (a[1] = b[1] /\ a[2] < b[2])

MagAdd(a, b) ==
    LET s == a[2] + b[2]
    IN  <<a[1] + b[1] + (s \div Base), s % Base>>

\* a - n for a small n <= a[2]
MagSubSmall(a, n) == <<a[1], a[2] - n>>

IntOf(neg, hi, lo) == [neg |-> neg, hi |-> hi, lo |-> lo, frac |-> << >>]

IsZero(x) == x.hi = 0 /\ x.lo = 0 /\ x.frac = << >>

\* x > y on signed integers (frac = << >>): the JS `>` on two numbers, and BN.gt
Gt(x, y) ==
    CASE ~x.neg /\ ~y.neg -> MagLt(Mag(y), Mag(x))
      [] ~x.neg /\ y.neg  -> ~(IsZero(x) /\ IsZero(y))
      [] x.neg /\ ~y.neg  -> FALSE
      [] OTHER            -> MagLt(Mag(x), Mag(y))

Gte(x, y) == ~Gt(y, x)

(***************************************************************************)
(* bignumber.js.                                                           *)
(***************************************************************************)
RECURSIVE StripZeros(_)
StripZeros(ds) ==
    IF ds # << >> /\ ds[Len(ds)] = 0 THEN StripZeros(SubSeq(ds, 1, Len(ds) - 1)) ELSE ds

\* new BigNumber("<whole>.<digits>"): whole < 10^9
BigNumber(neg, whole, digits) ==
    LET f == StripZeros(digits)
    IN  [neg |-> neg /\ ~(whole = 0 /\ f = << >>), hi |-> 0, lo |-> whole, frac |-> f]

\* decimalPlaces counting one digit too few
decimalPlacesOffByOne(a) == IF a.frac = << >> THEN 0 ELSE Len(a.frac) - 1

decimalPlaces(a) == Len(a.frac)

RECURSIVE DigitsValue(_)
DigitsValue(ds) ==
    IF ds = << >> THEN 0 ELSE 10 * DigitsValue(SubSeq(ds, 1, Len(ds) - 1)) + ds[Len(ds)]

RECURSIVE Log10(_)
Log10(m) == IF m < 10 THEN 0 ELSE 1 + Log10(m \div 10)

\* a.times(m) for m = 10^p, 0 <= p <= 9: the decimal point moves p places right
times(a, m) ==
    LET p    == Log10(m)
        n    == Len(a.frac)
        take == IF n < p THEN n ELSE p
        F    == DigitsValue(SubSeq(a.frac, 1, take)) * (10 ^ (p - take))
        r    == Base \div m
    IN  [neg  |-> a.neg,
         hi   |-> a.hi * m + (a.lo \div r),
         lo   |-> (a.lo % r) * m + F,
         frac |-> SubSeq(a.frac, take + 1, n)]

\* a.integerValue(BigNumber.ROUND_FLOOR): towards minus infinity
integerValueFloor(a) ==
    IF a.frac = << >> THEN a
    ELSE IF ~a.neg THEN [a EXCEPT !.frac = << >>]
    ELSE LET m == MagAdd(Mag(a), <<0, 1>>) IN IntOf(TRUE, m[1], m[2])

\* 2^53 .. 2^60 in limbs: a double has a 53-bit significand
DoubleLimits ==
    << <<9007199, 254740992>>, <<18014398, 509481984>>, <<36028797, 18963968>>,
       <<72057594, 37927936>>, <<144115188, 75855872>>, <<288230376, 151711744>>,
       <<576460752, 303423488>>, <<1152921504, 606846976>> >>

\* the number of low bits a double cannot keep of magnitude m (0 below 2^53)
RECURSIVE LostBits(_, _)
LostBits(m, k) ==
    IF k >= Len(DoubleLimits) \/ MagLt(m, DoubleLimits[k + 1]) THEN k ELSE LostBits(m, k + 1)

\* a.toNumber() of an integer BigNumber: the nearest double, ties to even.
\* 2^k divides 10^9 for k <= 9, so the low k bits of the value are those of lo.
toNumber(a) ==
    LET m    == Mag(a)
        k    == LostBits(m, 0)
        ulp  == 2 ^ k
        rem  == a.lo % ulp
        down == MagSubSmall(m, rem)
        up   == MagAdd(down, <<0, ulp>>)
        r    == IF rem = 0 THEN m
                ELSE IF 2 * rem < ulp THEN down
                ELSE IF 2 * rem > ulp THEN up
                ELSE IF (down[2] % (2 * ulp)) = 0 THEN down ELSE up
    IN  IntOf(a.neg, r[1], r[2])

(***************************************************************************)
(* String(amount) of an integer BigNumber below 10^21 (plain notation) and *)
(* new u64(string): bn.js reads an optional "-" and then base-10 digits.   *)
(***************************************************************************)
DigitChars == <<"0", "1", "2", "3", "4", "5", "6", "7", "8", "9">>

RECURSIVE NatToString(_)
NatToString(n) ==
    IF n < 10 THEN <<DigitChars[n + 1]>>
    ELSE NatToString(n \div 10) \o <<DigitChars[(n % 10) + 1]>>

RECURSIVE PadLeft(_, _)
PadLeft(str, width) == IF Len(str) >= width THEN str ELSE PadLeft(<<"0">> \o str, width)

String(a) ==
    (IF a.neg THEN <<"-">> ELSE << >>)
    \o (IF a.hi = 0 THEN NatToString(a.lo)
        ELSE NatToString(a.hi) \o PadLeft(NatToString(a.lo), 9))

CharValue(c) == CHOOSE d \in 0..9 : DigitChars[d + 1] = c

RECURSIVE ParseNat(_)
ParseNat(str) ==
    IF str = << >> THEN 0
    ELSE 10 * ParseNat(SubSeq(str, 1, Len(str) - 1)) + CharValue(str[Len(str)])

u64(str) ==
    LET neg    == str # << >> /\ str[1] = "-"
        digits == IF neg THEN Tail(str) ELSE str
        n      == Len(digits)
        hi     == IF n > 9 THEN ParseNat(SubSeq(digits, 1, n - 9)) ELSE 0
        lo     == IF n > 9 THEN ParseNat(SubSeq(digits, n - 8, n)) ELSE ParseNat(digits)
    IN  IntOf(neg /\ ~(hi = 0 /\ lo = 0), hi, lo)

(***************************************************************************)
(* Buffer.from(memo, 'utf8'): a string is its sequence of code points, all *)
(* below U+0800 here, so one or two bytes each.                            *)
(***************************************************************************)
RECURSIVE Utf8Encode(_)
Utf8Encode(str) ==
    IF str = << >> THEN << >>
    ELSE LET c == Head(str)
         IN  (IF c < 128 THEN <<c>> ELSE <<192 + (c \div 64), 128 + (c % 64)>>)
             \o Utf8Encode(Tail(str))

(***************************************************************************)
(* Addresses, accounts and the two account layouts.                        *)
(***************************************************************************)
PublicKey(name) == [key |-> name]

\* Token.getAssociatedTokenAddress: a pure function of its four arguments
getAssociatedTokenAddress(associatedProgramId, programId, mintKey, owner) ==
    [ata |-> <<associatedProgramId, programId, mintKey.key, owner.key>>]

\* the bytes of an account, seen through MintLayout and AccountLayout
Data(length, isInitialized, decimals, amountField) ==
    [length |-> length, isInitialized |-> isInitialized, decimals |-> decimals,
     amount |-> amountField]

AccountInfo(owner, lamportsField, data) ==
    [owner |-> owner, lamports |-> lamportsField, data |-> data]

MintLayoutDecode(data) == [isInitialized |-> data.isInitialized, decimals |-> data.decimals]

AccountLayoutDecode(data) == [amount |-> data.amount]

(***************************************************************************)
(* What the caller may pass and what the ledger client may answer.         *)
(***************************************************************************)
Amounts ==
    { BigNumber(FALSE, 1, <<5>>),                    \* 1.5
      BigNumber(FALSE, 1, <<9,9,9,9,9,9,9,9,9>>),    \* 1.999999999
      BigNumber(FALSE, 1, <<9,9,9,9,9,9,9,9,9,9>>),  \* 1.9999999999
      BigNumber(FALSE, 10, <<0>>),                   \* 10.0
      BigNumber(FALSE, 9007199, <<2,5,4,7,4,0,9,9,3>>), \* (2^53 + 1) / 10^9
      BigNumber(TRUE, 1, <<5>>) }                    \* -1.5

\* another account, or the payer itself (a self-transfer)
Recipients == { PublicKey("merchant"), PublicKey("payer") }

Tokens == { Null, PublicKey("mint") }

ReferenceKeys == { PublicKey("ref1"), PublicKey("ref2") }

RECURSIVE SeqsUpTo(_, _)
SeqsUpTo(S, n) ==
    IF n = 0 THEN { << >> }
    ELSE LET shorter == SeqsUpTo(S, n - 1)
         IN  shorter \cup { Append(q, x) : q \in { r \in shorter : Len(r) = n - 1 }, x \in S }

ReferenceLists == { Null } \cup { [list |-> q] : q \in SeqsUpTo(ReferenceKeys, MaxReferences) }

\* a memo is a string: its code points ("" and "(e-acute)a")
Memos == { Null, [text |-> << >>], [text |-> <<233, 97>>] }

NoData == Data(0, FALSE, 0, IntOf(FALSE, 0, 0))

\* lamports is a JS number: every balance here is a double
LamportBalances ==
    { x \in { IntOf(FALSE, 0, 0), IntOf(FALSE, 1, 499999999), IntOf(FALSE, 1, 500000000),
              IntOf(FALSE, 9007199, 254740992) } :
        toNumber(x) = x }

TokenBalances ==
    { IntOf(FALSE, 0, 9999999), IntOf(FALSE, 0, 10000000), IntOf(FALSE, 1, 500000000) }

MintDecimals == { 0, 6, 9 }

PayerAnswers ==
    { Null } \cup { AccountInfo(SYSTEM_PROGRAM_ID, b, NoData) : b \in LamportBalances }

RecipientAnswers == { Null, AccountInfo(SYSTEM_PROGRAM_ID, IntOf(FALSE, 0, 0), NoData) }

MintAccount(owner, length, isInitialized, decimals) ==
    AccountInfo(owner, IntOf(FALSE, 0, 1461600),
                Data(length, isInitialized, decimals, IntOf(FALSE, 0, 0)))

\* every combination of owner, length and initialized flag, and every
\* decimals of a well-formed mint
TokenAnswers ==
    { Null } \cup
    { MintAccount(o, l, i, 6) :
        o \in { TOKEN_PROGRAM_ID, SYSTEM_PROGRAM_ID }, l \in { MintLayoutSpan, 165 },
        i \in BOOLEAN } \cup
    { MintAccount(TOKEN_PROGRAM_ID, MintLayoutSpan, TRUE, d) : d \in MintDecimals }

PayerATAAnswers ==
    { Null } \cup
    { AccountInfo(TOKEN_PROGRAM_ID, IntOf(FALSE, 0, 2039280), Data(165, TRUE, 0, b)) :
        b \in TokenBalances }

RecipientATAAnswers ==
    { Null,
      AccountInfo(TOKEN_PROGRAM_ID, IntOf(FALSE, 0, 2039280),
                  Data(165, TRUE, 0, IntOf(FALSE, 0, 0))) }

(***************************************************************************)
(* The state of one invocation.                                            *)
(***************************************************************************)
VARIABLES
    pc,          \* where the invocation is: idle, an await, returned or thrown
    pending,     \* the getAccountInfo call in flight, or Null
    error,       \* the message of the Error thrown, or NoError
    trace,       \* every step performed so far, in order
    payer, recipient, token, references, memo,   \* the arguments
    amountIn,    \* the amount the caller passed (amount itself is reassigned)
    amount, payerInfo, recipientInfo, tokenInfo, mint, payerATA, payerATAInfo,
    tokens, recipientATA, recipientATAInfo, lamports, instruction, transaction

arguments == <<payer, recipient, token, references, memo, amountIn>>

locals == <<amount, payerInfo, recipientInfo, tokenInfo, mint, payerATA, payerATAInfo,
            tokens, recipientATA, recipientATAInfo, lamports, instruction, transaction>>

vars == <<pc, pending, error, trace, arguments, locals>>

Step(op, arg) == [op |-> op, arg |-> arg]

Query(role, address) == [op |-> "getAccountInfo", arg |-> role, address |-> address]

Init ==
    /\ pc = "idle"
    /\ pending = Null
    /\ error = NoError
    /\ trace = << >>
    /\ payer = Null /\ recipient = Null /\ token = Null /\ references = Null
    /\ memo = Null /\ amountIn = Null
    /\ amount = Null /\ payerInfo = Null /\ recipientInfo = Null /\ tokenInfo = Null
    /\ mint = Null /\ payerATA = Null /\ payerATAInfo = Null /\ tokens = Null
    /\ recipientATA = Null /\ recipientATAInfo = Null /\ lamports = Null
    /\ instruction = Null /\ transaction = Null

(***************************************************************************)
(* The instruction builders of web3.js and spl-token, by their results.    *)
(***************************************************************************)
AccountMeta(pubkey, isSigner, isWritable) ==
    [pubkey |-> pubkey, isSigner |-> isSigner, isWritable |-> isWritable]

SystemProgramTransfer(fromPubkey, toPubkey, lamportsArg) ==
    [programId |-> SYSTEM_PROGRAM_ID,
     keys      |-> <<AccountMeta(fromPubkey, TRUE, TRUE), AccountMeta(toPubkey, FALSE, TRUE)>>,
     data      |-> [instruction |-> "Transfer", lamports |-> lamportsArg]]

\* with no multiSigners the owner signs
createTransferCheckedInstruction(programId, source, mintKey, destination, owner, amountArg, decimalsArg) ==
    [programId |-> programId,
     keys      |-> <<AccountMeta(source, FALSE, TRUE), AccountMeta(mintKey, FALSE, FALSE),
                     AccountMeta(destination, FALSE, TRUE), AccountMeta(owner, TRUE, FALSE)>>,
     data      |-> [instruction |-> "TransferChecked", amount |-> amountArg,
                    decimals |-> decimalsArg]]

MemoInstruction(text) ==
    [programId |-> MEMO_PROGRAM_ID, keys |-> << >>, data |-> Utf8Encode(text)]

(***************************************************************************)
(* The code between two awaits, as functions of what it reads.  Each       *)
(* yields the error it throws (or NoError), the locals it assigns and the  *)
(* steps it performs.                                                      *)
(***************************************************************************)
Passed(kind) == Step("check", kind)
Thrown(kind) == Step("throw", kind)

\* NativeBranch with the instruction built before the balance is checked
NativeBranchBuildsFirst(amt, info, fromPubkey, toPubkey) ==
    IF decimalPlaces(amt) > SOL_DECIMALS
    THEN [error |-> "AMOUNT_INVALID_DECIMALS", amount |-> amt, lamports |-> Null,
          instruction |-> Null, steps |-> <<Thrown("AMOUNT_INVALID_DECIMALS")>>]
    ELSE LET converted == integerValueFloor(times(amt, LAMPORTS_PER_SOL))
             n         == toNumber(converted)
             built     == SystemProgramTransfer(fromPubkey, toPubkey, n)
         IN  IF Gt(n, info.lamports)
             THEN [error |-> "PAYER_INSUFFICIENT_FUNDS", amount |-> converted,
                   lamports |-> n, instruction |-> built,
                   steps |-> <<Passed("AMOUNT_INVALID_DECIMALS"), Step("convert", "lamports"),
                               Step("instruction", "SystemProgram.transfer"),
                               Thrown("PAYER_INSUFFICIENT_FUNDS")>>]
             ELSE [error |-> NoError, amount |-> converted, lamports |-> n,
                   instruction |-> built,
                   steps |-> <<Passed("AMOUNT_INVALID_DECIMALS"), Step("convert", "lamports"),
                               Step("instruction", "SystemProgram.transfer"),
                               Passed("PAYER_INSUFFICIENT_FUNDS")>>]

\* lines 62-79
NativeBranch(amt, info, fromPubkey, toPubkey) ==
    IF decimalPlaces(amt) > SOL_DECIMALS
    THEN [error |-> "AMOUNT_INVALID_DECIMALS", amount |-> amt, lamports |-> Null,
          instruction |-> Null, steps |-> <<Thrown("AMOUNT_INVALID_DECIMALS")>>]
    ELSE LET converted == integerValueFloor(times(amt, LAMPORTS_PER_SOL))
             n         == toNumber(converted)
         IN  IF Gt(n, info.lamports)
             THEN [error |-> "PAYER_INSUFFICIENT_FUNDS", amount |-> converted,
                   lamports |-> n, instruction |-> Null,
                   steps |-> <<Passed("AMOUNT_INVALID_DECIMALS"), Step("convert", "lamports"),
                               Thrown("PAYER_INSUFFICIENT_FUNDS")>>]
             ELSE [error |-> NoError, amount |-> converted, lamports |-> n,
                   instruction |-> SystemProgramTransfer(fromPubkey, toPubkey, n),
                   steps |-> <<Passed("AMOUNT_INVALID_DECIMALS"), Step("convert", "lamports"),
                               Passed("PAYER_INSUFFICIENT_FUNDS"),
                               Step("instruction", "SystemProgram.transfer")>>]

\* MintError with the length checked before the owner
MintErrorLengthFirst(info) ==
    IF info = Null THEN "TOKEN_NOT_FOUND"
    ELSE IF info.data.length # MintLayoutSpan THEN "TOKEN_INVALID_LENGTH"
    ELSE IF info.owner # TOKEN_PROGRAM_ID THEN "TOKEN_INVALID_PROGRAM"
    ELSE IF ~MintLayoutDecode(info.data).isInitialized THEN "TOKEN_MINT_NOT_INITIALIZED"
    ELSE NoError

\* lines 86-91: the checks on the mint account, in the order of the code
MintError(info) ==
    IF info = Null THEN "TOKEN_NOT_FOUND"
    ELSE IF info.owner # TOKEN_PROGRAM_ID THEN "TOKEN_INVALID_PROGRAM"
    ELSE IF info.data.length # MintLayoutSpan THEN "TOKEN_INVALID_LENGTH"
    ELSE IF ~MintLayoutDecode(info.data).isInitialized THEN "TOKEN_MINT_NOT_INITIALIZED"
    ELSE NoError

MintCheckOrder ==
    <<"TOKEN_NOT_FOUND", "TOKEN_INVALID_PROGRAM", "TOKEN_INVALID_LENGTH",
      "TOKEN_MINT_NOT_INITIALIZED">>

\* the checks passed before `kind` threw (all of them when kind = NoError)
RECURSIVE PassedBefore(_, _)
PassedBefore(order, kind) ==
    IF order = << >> \/ Head(order) = kind THEN << >>
    ELSE <<Passed(Head(order))>> \o PassedBefore(Tail(order), kind)

\* TokenBranchMint leaving the precision of the amount unchecked before the lookups
TokenBranchMintUnchecked(amt, info) ==
    LET e == MintError(info)
        checked == PassedBefore(MintCheckOrder, e)
    IN  IF e # NoError
        THEN [error |-> e, mint |-> Null, amount |-> amt,
              steps |-> checked \o <<Thrown(e)>>]
        ELSE LET m == MintLayoutDecode(info.data)
             IN  [error |-> NoError, mint |-> m,
                  amount |-> integerValueFloor(times(amt, 10 ^ m.decimals)),
                  steps |-> checked \o <<Step("convert", "tokens")>>]

\* lines 86-98
TokenBranchMint(amt, info) ==
    LET e == MintError(info)
        checked == PassedBefore(MintCheckOrder, e)
    IN  IF e # NoError
        THEN [error |-> e, mint |-> Null, amount |-> amt,
              steps |-> checked \o <<Thrown(e)>>]
        ELSE LET m == MintLayoutDecode(info.data)
             IN  IF decimalPlaces(amt) > m.decimals
                 THEN [error |-> "AMOUNT_INVALID_DECIMALS", mint |-> m, amount |-> amt,
                       steps |-> checked \o <<Thrown("AMOUNT_INVALID_DECIMALS")>>]
                 ELSE [error |-> NoError, mint |-> m,
                       amount |-> integerValueFloor(times(amt, 10 ^ m.decimals)),
                       steps |-> checked \o <<Passed("AMOUNT_INVALID_DECIMALS"),
                                              Step("convert", "tokens")>>]

\* TokenBranchPayerATA refusing a balance equal to the amount
TokenBranchPayerATARefusesEqual(amt, info) ==
    IF info = Null
    THEN [error |-> "PAYER_ATA_NOT_FOUND", tokens |-> Null,
          steps |-> <<Thrown("PAYER_ATA_NOT_FOUND")>>]
    ELSE LET balance == AccountLayoutDecode(info.data).amount
             t       == u64(String(amt))
         IN  IF Gte(t, balance)
             THEN [error |-> "PAYER_ATA_INSUFFICIENT_FUNDS", tokens |-> t,
                   steps |-> <<Passed("PAYER_ATA_NOT_FOUND"),
                               Thrown("PAYER_ATA_INSUFFICIENT_FUNDS")>>]
             ELSE [error |-> NoError, tokens |-> t,
                   steps |-> <<Passed("PAYER_ATA_NOT_FOUND"),
                               Passed("PAYER_ATA_INSUFFICIENT_FUNDS")>>]

\* lines 108-113
TokenBranchPayerATA(amt, info) ==
    IF info = Null
    THEN [error |-> "PAYER_ATA_NOT_FOUND", tokens |-> Null,
          steps |-> <<Thrown("PAYER_ATA_NOT_FOUND")>>]
    ELSE LET balance == AccountLayoutDecode(info.data).amount
             t       == u64(String(amt))
         IN  IF Gt(t, balance)
             THEN [error |-> "PAYER_ATA_INSUFFICIENT_FUNDS", tokens |-> t,
                   steps |-> <<Passed("PAYER_ATA_NOT_FOUND"),
                               Thrown("PAYER_ATA_INSUFFICIENT_FUNDS")>>]
             ELSE [error |-> NoError, tokens |-> t,
                   steps |-> <<Passed("PAYER_ATA_NOT_FOUND"),
                               Passed("PAYER_ATA_INSUFFICIENT_FUNDS")>>]

\* TokenBranchRecipientATA without the existence check (as on the native branch)
TokenBranchRecipientATAUnchecked(info, source, mintKey, destination, owner, t, decimalsArg) ==
    [error |-> NoError,
     instruction |-> createTransferCheckedInstruction(
                         TOKEN_PROGRAM_ID, source, mintKey, destination, owner, t,
                         decimalsArg),
     steps |-> <<Passed("RECIPIENT_ATA_NOT_FOUND"),
                 Step("instruction", "Token.createTransferCheckedInstruction")>>]

\* TokenBranchRecipientATA transferring from the recipient's account to the payer's
TokenBranchRecipientATAReversed(info, source, mintKey, destination, owner, t, decimalsArg) ==
    IF info = Null
    THEN [error |-> "RECIPIENT_ATA_NOT_FOUND", instruction |-> Null,
          steps |-> <<Thrown("RECIPIENT_ATA_NOT_FOUND")>>]
    ELSE [error |-> NoError,
          instruction |-> createTransferCheckedInstruction(
                              TOKEN_PROGRAM_ID, destination, mintKey, source, owner, t,
                              decimalsArg),
          steps |-> <<Passed("RECIPIENT_ATA_NOT_FOUND"),
                      Step("instruction", "Token.createTransferCheckedInstruction")>>]

\* lines 123-135
TokenBranchRecipientATA(info, source, mintKey, destination, owner, t, decimalsArg) ==
    IF info = Null
    THEN [error |-> "RECIPIENT_ATA_NOT_FOUND", instruction |-> Null,
          steps |-> <<Thrown("RECIPIENT_ATA_NOT_FOUND")>>]
    ELSE [error |-> NoError,
          instruction |-> createTransferCheckedInstruction(
                              TOKEN_PROGRAM_ID, source, mintKey, destination, owner, t,
                              decimalsArg),
          steps |-> <<Passed("RECIPIENT_ATA_NOT_FOUND"),
                      Step("instruction", "Token.createTransferCheckedInstruction")>>]

\* lines 139-141: references?.length is falsy for undefined and for []
RECURSIVE ReferenceMetas(_)
ReferenceMetas(list) ==
    IF list = << >> THEN << >>
    ELSE <<AccountMeta(Head(list), FALSE, FALSE)>> \o ReferenceMetas(Tail(list))

\* AddReferences putting the references in front of the transfer's accounts
AddReferencesInFront(instr, refs) ==
    IF refs # Null /\ Len(refs.list) # 0
    THEN [instr EXCEPT !.keys = ReferenceMetas(refs.list) \o @]
    ELSE instr

AddReferences(instr, refs) ==
    IF refs # Null /\ Len(refs.list) # 0
    THEN [instr EXCEPT !.keys = @ \o ReferenceMetas(refs.list)]
    ELSE instr

\* Assemble testing the memo for truthiness: `if (memo)` skips the empty string
AssembleIfTruthy(instr, m) ==
    IF m # Null /\ m.text # << >> THEN <<instr, MemoInstruction(m.text)>> ELSE <<instr>>

\* lines 144-155: memo != null is true of every string, the empty one too
Assemble(instr, m) ==
    IF m # Null THEN <<instr, MemoInstruction(m.text)>> ELSE <<instr>>

\* lines 138-157
Finish(instr, refs, m) ==
    LET withRefs == AddReferences(instr, refs)
    IN  [instruction |-> withRefs,
         transaction |-> [instructions |-> Assemble(withRefs, m)],
         steps |-> (IF refs # Null /\ Len(refs.list) # 0
                    THEN <<Step("references", "push")>> ELSE << >>)
                   \o <<Step("Transaction", "add")>>
                   \o (IF m # Null THEN <<Step("memo", "add")>> ELSE << >>)
                   \o <<Step("return", "transaction")>>]

(***************************************************************************)
(* The actions: createTransaction is called, and then runs from one await  *)
(* to the next each time the awaited promise settles.                      *)
(***************************************************************************)
Throw(kind, steps) ==
    /\ pc' = "thrown"
    /\ error' = kind
    /\ pending' = Null
    /\ trace' = trace \o steps

Return(steps) ==
    /\ pc' = "returned"
    /\ error' = NoError
    /\ pending' = Null
    /\ trace' = trace \o steps

\* suspend on connection.getAccountInfo(address)
AwaitAccountInfo(label, role, address, steps) ==
    /\ pc' = label
    /\ error' = NoError
    /\ pending' = Query(role, address)
    /\ trace' = trace \o steps \o <<Query(role, address)>>

\* suspend on Token.getAssociatedTokenAddress(..., owner): no ledger query
AwaitAssociatedTokenAddress(label, role, steps) ==
    /\ pc' = label
    /\ error' = NoError
    /\ pending' = Null
    /\ trace' = trace \o steps \o <<Step("getAssociatedTokenAddress", role)>>

\* Call issuing the payer and the recipient lookup together, awaiting the first
CallQueriesBoth(r, a, t, refs, m) ==
    /\ pc = "idle"
    /\ payer' = PublicKey("payer")
    /\ recipient' = r
    /\ amountIn' = a
    /\ amount' = a
    /\ token' = t
    /\ references' = refs
    /\ memo' = m
    /\ pc' = "awaitPayerInfo"
    /\ error' = NoError
    /\ pending' = Query("payer", PublicKey("payer"))
    /\ trace' = <<Query("payer", PublicKey("payer")), Query("recipient", r)>>
    /\ UNCHANGED <<payerInfo, recipientInfo, tokenInfo, mint, payerATA, payerATAInfo, tokens,
                   recipientATA, recipientATAInfo, lamports, instruction, transaction>>

\* lines 39-50
Call(r, a, t, refs, m) ==
    /\ pc = "idle"
    /\ payer' = PublicKey("payer")
    /\ recipient' = r
    /\ amountIn' = a
    /\ amount' = a
    /\ token' = t
    /\ references' = refs
    /\ memo' = m
    /\ AwaitAccountInfo("awaitPayerInfo", "payer", PublicKey("payer"), << >>)
    /\ UNCHANGED <<payerInfo, recipientInfo, tokenInfo, mint, payerATA, payerATAInfo, tokens,
                   recipientATA, recipientATAInfo, lamports, instruction, transaction>>

\* PayerInfoReturns asking for the recipient before it has checked the payer
PayerInfoReturnsUnchecked(info) ==
    /\ pc = "awaitPayerInfo"
    /\ payerInfo' = info
    /\ AwaitAccountInfo("awaitRecipientInfo", "recipient", recipient, << >>)
    /\ UNCHANGED <<arguments, amount, recipientInfo, tokenInfo, mint, payerATA, payerATAInfo,
                   tokens, recipientATA, recipientATAInfo, lamports, instruction, transaction>>

\* lines 50-53
PayerInfoReturns(info) ==
    /\ pc = "awaitPayerInfo"
    /\ payerInfo' = info
    /\ IF info = Null
       THEN Throw("PAYER_NOT_FOUND", <<Thrown("PAYER_NOT_FOUND")>>)
       ELSE AwaitAccountInfo("awaitRecipientInfo", "recipient", recipient,
                             <<Passed("PAYER_NOT_FOUND")>>)
    /\ UNCHANGED <<arguments, amount, recipientInfo, tokenInfo, mint, payerATA, payerATAInfo,
                   tokens, recipientATA, recipientATAInfo, lamports, instruction, transaction>>

\* RecipientInfoReturns without the else: a token payment runs the native checks too
RecipientInfoReturnsBothBranches(info) ==
    /\ pc = "awaitRecipientInfo"
    /\ recipientInfo' = info
    /\ IF info = Null
       THEN /\ Throw("RECIPIENT_NOT_FOUND", <<Thrown("RECIPIENT_NOT_FOUND")>>)
            /\ UNCHANGED <<amount, lamports, instruction, transaction>>
       ELSE LET b == NativeBranch(amount, payerInfo, payer, recipient)
                f == Finish(b.instruction, references, memo)
            IN  /\ lamports' = b.lamports
                /\ IF b.error # NoError
                   THEN /\ Throw(b.error, <<Passed("RECIPIENT_NOT_FOUND")>> \o b.steps)
                        /\ amount' = b.amount
                        /\ instruction' = b.instruction
                        /\ transaction' = transaction
                   ELSE IF token = Null
                   THEN /\ Return(<<Passed("RECIPIENT_NOT_FOUND")>> \o b.steps \o f.steps)
                        /\ amount' = b.amount
                        /\ instruction' = f.instruction
                        /\ transaction' = f.transaction
                   ELSE /\ AwaitAccountInfo("awaitTokenInfo", "token", token,
                                            <<Passed("RECIPIENT_NOT_FOUND")>> \o b.steps)
                        /\ UNCHANGED <<amount, instruction, transaction>>
    /\ UNCHANGED <<arguments, payerInfo, tokenInfo, mint, payerATA, payerATAInfo, tokens,
                   recipientATA, recipientATAInfo>>

\* lines 53-85, and 138-157 on the native branch
RecipientInfoReturns(info) ==
    /\ pc = "awaitRecipientInfo"
    /\ recipientInfo' = info
    /\ IF info = Null
       THEN /\ Throw("RECIPIENT_NOT_FOUND", <<Thrown("RECIPIENT_NOT_FOUND")>>)
            /\ UNCHANGED <<amount, lamports, instruction, transaction>>
       ELSE IF token = Null
       THEN LET b == NativeBranch(amount, payerInfo, payer, recipient)
                f == Finish(b.instruction, references, memo)
            IN  /\ amount' = b.amount
                /\ lamports' = b.lamports
                /\ IF b.error # NoError
                   THEN /\ Throw(b.error, <<Passed("RECIPIENT_NOT_FOUND")>> \o b.steps)
                        /\ instruction' = b.instruction
                        /\ transaction' = transaction
                   ELSE /\ Return(<<Passed("RECIPIENT_NOT_FOUND")>> \o b.steps \o f.steps)
                        /\ instruction' = f.instruction
                        /\ transaction' = f.transaction
       ELSE /\ AwaitAccountInfo("awaitTokenInfo", "token", token,
                                <<Passed("RECIPIENT_NOT_FOUND")>>)
            /\ UNCHANGED <<amount, lamports, instruction, transaction>>
    /\ UNCHANGED <<arguments, payerInfo, tokenInfo, mint, payerATA, payerATAInfo, tokens,
                   recipientATA, recipientATAInfo>>

\* lines 85-101
TokenInfoReturns(info) ==
    /\ pc = "awaitTokenInfo"
    /\ tokenInfo' = info
    /\ LET b == TokenBranchMint(amount, info)
       IN  /\ mint' = b.mint
           /\ amount' = b.amount
           /\ IF b.error # NoError
              THEN Throw(b.error, b.steps)
              ELSE AwaitAssociatedTokenAddress("awaitPayerATA", "payerATA", b.steps)
    /\ UNCHANGED <<arguments, payerInfo, recipientInfo, payerATA, payerATAInfo, tokens,
                   recipientATA, recipientATAInfo, lamports, instruction, transaction>>

\* lines 101-107
PayerATADerived ==
    /\ pc = "awaitPayerATA"
    /\ payerATA' = getAssociatedTokenAddress(ASSOCIATED_TOKEN_PROGRAM_ID, TOKEN_PROGRAM_ID,
                                             token, payer)
    /\ AwaitAccountInfo("awaitPayerATAInfo", "payerATA", payerATA', << >>)
    /\ UNCHANGED <<arguments, amount, payerInfo, recipientInfo, tokenInfo, mint, payerATAInfo,
                   tokens, recipientATA, recipientATAInfo, lamports, instruction, transaction>>

\* lines 107-116
PayerATAInfoReturns(info) ==
    /\ pc = "awaitPayerATAInfo"
    /\ payerATAInfo' = info
    /\ LET b == TokenBranchPayerATA(amount, info)
       IN  /\ tokens' = b.tokens
           /\ IF b.error # NoError
              THEN Throw(b.error, b.steps)
              ELSE AwaitAssociatedTokenAddress("awaitRecipientATA", "recipientATA", b.steps)
    /\ UNCHANGED <<arguments, amount, payerInfo, recipientInfo, tokenInfo, mint, payerATA,
                   recipientATA, recipientATAInfo, lamports, instruction, transaction>>

\* lines 116-122
RecipientATADerived ==
    /\ pc = "awaitRecipientATA"
    /\ recipientATA' = getAssociatedTokenAddress(ASSOCIATED_TOKEN_PROGRAM_ID,
                                                 TOKEN_PROGRAM_ID, token, recipient)
    /\ AwaitAccountInfo("awaitRecipientATAInfo", "recipientATA", recipientATA', << >>)
    /\ UNCHANGED <<arguments, amount, payerInfo, recipientInfo, tokenInfo, mint, payerATA,
                   payerATAInfo, tokens, recipientATAInfo, lamports, instruction,
                   transaction>>

\* lines 122-157
RecipientATAInfoReturns(info) ==
    /\ pc = "awaitRecipientATAInfo"
    /\ recipientATAInfo' = info
    /\ LET b == TokenBranchRecipientATA(info, payerATA, token, recipientATA, payer, tokens,
                                        mint.decimals)
           f == Finish(b.instruction, references, memo)
       IN  IF b.error # NoError
           THEN /\ Throw(b.error, b.steps)
                /\ instruction' = b.instruction
                /\ transaction' = transaction
           ELSE /\ Return(b.steps \o f.steps)
                /\ instruction' = f.instruction
                /\ transaction' = f.transaction
    /\ UNCHANGED <<arguments, amount, payerInfo, recipientInfo, tokenInfo, mint, payerATA,
                   payerATAInfo, tokens, recipientATA, lamports>>

\* AccountInfoFails catching the rejection and issuing the same lookup again
AccountInfoFailsRetries ==
    /\ pending # Null
    /\ trace' = trace \o <<Step("reject", pending.arg), pending>>
    /\ UNCHANGED <<pc, error, pending, arguments, locals>>

\* an awaited getAccountInfo rejects: nothing catches it, the call rejects with it
AccountInfoFails ==
    /\ pending # Null
    /\ pc' = "thrown"
    /\ error' = "LEDGER_CLIENT_FAILURE"
    /\ pending' = Null
    /\ trace' = trace \o <<Step("reject", pending.arg)>>
    /\ UNCHANGED <<arguments, locals>>

Next ==
    \/ \E r \in Recipients, a \in Amounts, t \in Tokens, refs \in ReferenceLists, m \in Memos :
          Call(r, a, t, refs, m)
    \/ \E info \in PayerAnswers : PayerInfoReturns(info)
    \/ \E info \in RecipientAnswers : RecipientInfoReturns(info)
    \/ \E info \in TokenAnswers : TokenInfoReturns(info)
    \/ PayerATADerived
    \/ \E info \in PayerATAAnswers : PayerATAInfoReturns(info)
    \/ RecipientATADerived
    \/ \E info \in RecipientATAAnswers : RecipientATAInfoReturns(info)
    \/ AccountInfoFails

Spec == Init /\ [][Next]_vars

(***************************************************************************)
(* Vocabulary of the properties.                                           *)
(***************************************************************************)
Terminated == pc \in { "returned", "thrown" }

IsQuery(e) == e.op = "getAccountInfo"

IsFailure(e) == e.op \in { "throw", "reject" }

Lookups == SelectSeq(trace, IsQuery)

\* the getAccountInfo call for `role` was issued and has returned an answer
Answered(role) ==
    \E i \in 1..(Len(trace) - 1) :
        IsQuery(trace[i]) /\ trace[i].arg = role /\ trace[i + 1].op # "reject"

Performed(op) == \E i \in 1..Len(trace) : trace[i].op = op

\* floor(a * 10^p) in exact arithmetic
ExactInteger(a, p) == integerValueFloor(times(a, 10 ^ p))

LookupOrder == <<"payer", "recipient", "token", "payerATA", "recipientATA">>

(***************************************************************************)
(* C1.  As stated: every terminated invocation has either returned a fully *)
(* assembled transaction or thrown exactly one of the 11 error kinds, with *)
(* no instruction and no transaction.                                      *)
(***************************************************************************)
C1_TwoOutcomes ==
    Terminated =>
        \/ pc = "returned" /\ error = NoError /\ transaction # Null
        \/ pc = "thrown" /\ error \in CreateTransactionError
             /\ instruction = Null /\ transaction = Null

(***************************************************************************)
(* C1, amended.  A terminated invocation has returned a fully assembled    *)
(* transaction, or thrown exactly one of the 11 error kinds, or rejected   *)
(* with the failure of a ledger lookup.  The failing step is the last step *)
(* performed: nothing is looked up, checked, built or assembled after it,  *)
(* and a failed invocation holds no instruction and no transaction.  An    *)
(* invocation that has not failed has performed no failing step.           *)
(***************************************************************************)
C1_Outcome ==
    /\ \A i \in 1..Len(trace) : IsFailure(trace[i]) => i = Len(trace) /\ pc = "thrown"
    /\ pc = "returned" =>
          /\ error = NoError /\ pending = Null
          /\ instruction # Null /\ transaction # Null
          /\ transaction.instructions[1] = instruction
          /\ trace[Len(trace)] = Step("return", "transaction")
    /\ pc = "thrown" =>
          /\ pending = Null
          /\ instruction = Null /\ transaction = Null
          /\ \/ error \in CreateTransactionError /\ trace[Len(trace)] = Thrown(error)
             \/ error = "LEDGER_CLIENT_FAILURE" /\ trace[Len(trace)].op = "reject"
    /\ ~Terminated => error = NoError /\ instruction = Null /\ transaction = Null

\* a check late in the pipeline failed: the amount was converted, nothing was built
C1_Witness ==
    /\ pc = "thrown" /\ error = "PAYER_INSUFFICIENT_FUNDS"
    /\ Performed("convert") /\ lamports # Null

(***************************************************************************)
(* C2.  Once the mint account has been fetched, the error is decided by    *)
(* the first failing of the four mint checks, in the order absent, owner,  *)
(* length, initialized; a mint that passes them all yields none of the     *)
(* four errors; and at most one error is thrown.                           *)
(***************************************************************************)
C2_MintCheckOrder ==
    Answered("token") =>
        /\ tokenInfo = Null => error = "TOKEN_NOT_FOUND"
        /\ tokenInfo # Null =>
              /\ tokenInfo.owner # TOKEN_PROGRAM_ID => error = "TOKEN_INVALID_PROGRAM"
              /\ tokenInfo.owner = TOKEN_PROGRAM_ID =>
                    /\ tokenInfo.data.length # MintLayoutSpan => error = "TOKEN_INVALID_LENGTH"
                    /\ tokenInfo.data.length = MintLayoutSpan =>
                          /\ ~tokenInfo.data.isInitialized =>
                                error = "TOKEN_MINT_NOT_INITIALIZED"
                          /\ tokenInfo.data.isInitialized =>
                                error \notin { "TOKEN_NOT_FOUND", "TOKEN_INVALID_PROGRAM",
                                               "TOKEN_INVALID_LENGTH",
                                               "TOKEN_MINT_NOT_INITIALIZED" }
        /\ Cardinality({ i \in 1..Len(trace) : trace[i].op = "throw" }) <= 1
        /\ payerInfo # Null /\ recipientInfo # Null

\* a mint failing two checks (owner and length) yields the earlier error
C2_Witness ==
    /\ Answered("token") /\ tokenInfo # Null
    /\ tokenInfo.owner # TOKEN_PROGRAM_ID /\ tokenInfo.data.length # MintLayoutSpan
    /\ error = "TOKEN_INVALID_PROGRAM"

(***************************************************************************)
(* C3.  When the precision check is reached (native: payer and recipient   *)
(* resolved; token: the mint validated) with an amount of more fractional  *)
(* digits than the effective precision (9, or the mint's decimals), the    *)
(* call has thrown AMOUNT_INVALID_DECIMALS and done nothing further: the   *)
(* amount is not converted, no associated token address is derived or      *)
(* looked up, no balance is compared and no instruction is built.          *)
(***************************************************************************)
PrecisionRefused ==
    /\ pc = "thrown" /\ error = "AMOUNT_INVALID_DECIMALS"
    /\ amount = amountIn /\ lamports = Null /\ tokens = Null
    /\ payerATA = Null /\ payerATAInfo = Null
    /\ recipientATA = Null /\ recipientATAInfo = Null
    /\ instruction = Null /\ transaction = Null
    /\ ~Performed("convert") /\ ~Performed("instruction")
    /\ ~Performed("getAssociatedTokenAddress")
    /\ \A i \in 1..Len(trace) :
          trace[i] \notin { Passed("PAYER_INSUFFICIENT_FUNDS"),
                            Passed("PAYER_ATA_INSUFFICIENT_FUNDS") }
    /\ Len(Lookups) = (IF token = Null THEN 2 ELSE 3)

C3_PrecisionRefused ==
    /\ (/\ token = Null /\ Answered("recipient") /\ recipientInfo # Null
        /\ Len(amountIn.frac) > SOL_DECIMALS) => PrecisionRefused
    /\ (/\ token # Null /\ mint # Null
        /\ Len(amountIn.frac) > tokenInfo.data.decimals) => PrecisionRefused

\* 1.999999999 (nine digits) against a mint of six decimals
C3_Witness ==
    /\ error = "AMOUNT_INVALID_DECIMALS" /\ token # Null
    /\ Len(amountIn.frac) = 9 /\ mint.decimals = 6

(***************************************************************************)
(* C4.  As stated: on every successful call the transfer instruction       *)
(* carries floor(amount * 10^precision), precision 9 on the native branch  *)
(* and the mint's decimals on the token branch, and the token              *)
(* instruction's decimals field is the mint's decimals.                    *)
(***************************************************************************)
C4_FloorConversion ==
    pc = "returned" =>
        IF token = Null
        THEN instruction.data.lamports = ExactInteger(amountIn, SOL_DECIMALS)
        ELSE /\ instruction.data.amount = ExactInteger(amountIn, tokenInfo.data.decimals)
             /\ instruction.data.decimals = tokenInfo.data.decimals

(***************************************************************************)
(* C5.  As stated: once the earlier checks have passed, a payer balance    *)
(* strictly below the converted integer amount makes the call fail with    *)
(* PAYER_INSUFFICIENT_FUNDS (native) or PAYER_ATA_INSUFFICIENT_FUNDS       *)
(* (token), and no transaction is returned.                                *)
(***************************************************************************)
C5_InsufficientFunds ==
    /\ (/\ token = Null /\ Answered("recipient") /\ recipientInfo # Null
        /\ Len(amountIn.frac) <= SOL_DECIMALS
        /\ Gt(ExactInteger(amountIn, SOL_DECIMALS), payerInfo.lamports))
       => pc = "thrown" /\ error = "PAYER_INSUFFICIENT_FUNDS" /\ transaction = Null
    /\ (/\ Answered("payerATA") /\ payerATAInfo # Null
        /\ Gt(ExactInteger(amountIn, tokenInfo.data.decimals), payerATAInfo.data.amount))
       => pc = "thrown" /\ error = "PAYER_ATA_INSUFFICIENT_FUNDS" /\ transaction = Null

(***************************************************************************)
(* C6.  A balance greater than or equal to floor(amount * 10^precision)    *)
(* never yields PAYER_INSUFFICIENT_FUNDS or PAYER_ATA_INSUFFICIENT_FUNDS;  *)
(* and a token transfer of 10 at decimals 6 with a balance of exactly      *)
(* 10000000 succeeds once the recipient's token account is found.          *)
(***************************************************************************)
InsufficientFunds == { "PAYER_INSUFFICIENT_FUNDS", "PAYER_ATA_INSUFFICIENT_FUNDS" }

C6_EqualBalanceSuffices ==
    /\ (/\ token = Null /\ payerInfo # Null
        /\ Gte(payerInfo.lamports, ExactInteger(amountIn, SOL_DECIMALS)))
       => error \notin InsufficientFunds
    /\ (/\ token # Null /\ payerATAInfo # Null
        /\ Gte(payerATAInfo.data.amount, ExactInteger(amountIn, tokenInfo.data.decimals)))
       => error \notin InsufficientFunds
    /\ (/\ token # Null /\ payerATAInfo # Null
        /\ amountIn = BigNumber(FALSE, 10, << >>) /\ tokenInfo.data.decimals = 6
        /\ payerATAInfo.data.amount = IntOf(FALSE, 0, 10000000)
        /\ Answered("recipientATA") /\ recipientATAInfo # Null)
       => pc = "returned" /\ instruction.data.amount = IntOf(FALSE, 0, 10000000)

\* the token balance equals the amount, and the transfer was built
C6_Witness ==
    /\ pc = "returned" /\ token # Null
    /\ amountIn = BigNumber(FALSE, 10, << >>) /\ mint.decimals = 6
    /\ payerATAInfo.data.amount = IntOf(FALSE, 0, 10000000)
    /\ tokens = payerATAInfo.data.amount

(***************************************************************************)
(* C7.  On success the transfer instruction's accounts are those of the    *)
(* transfer as built (native: payer signer and writable, recipient         *)
(* writable; token: payer ATA writable, mint, recipient ATA writable,      *)
(* payer signer), unchanged, followed by exactly the supplied references   *)
(* in input order, each non-writable and non-signing; the memo             *)
(* instruction receives none.                                              *)
(***************************************************************************)
SuppliedReferences == IF references = Null THEN << >> ELSE references.list

BuiltKeys ==
    IF token = Null
    THEN <<[pubkey |-> payer, isSigner |-> TRUE, isWritable |-> TRUE],
           [pubkey |-> recipient, isSigner |-> FALSE, isWritable |-> TRUE]>>
    ELSE <<[pubkey |-> payerATA, isSigner |-> FALSE, isWritable |-> TRUE],
           [pubkey |-> token, isSigner |-> FALSE, isWritable |-> FALSE],
           [pubkey |-> recipientATA, isSigner |-> FALSE, isWritable |-> TRUE],
           [pubkey |-> payer, isSigner |-> TRUE, isWritable |-> FALSE]>>

C7_ReferencesAppended ==
    pc = "returned" =>
        LET keys == transaction.instructions[1].keys
            base == Len(BuiltKeys)
            n    == Len(SuppliedReferences)
        IN  /\ Len(keys) = base + n
            /\ SubSeq(keys, 1, base) = BuiltKeys
            /\ \A i \in 1..n :
                  keys[base + i] = [pubkey |-> SuppliedReferences[i], isSigner |-> FALSE,
                                    isWritable |-> FALSE]
            /\ \A j \in 2..Len(transaction.instructions) :
                  transaction.instructions[j].keys = << >>

\* two different references and a memo
C7_Witness ==
    /\ pc = "returned" /\ memo # Null
    /\ Len(SuppliedReferences) = 2 /\ SuppliedReferences[1] # SuppliedReferences[2]
    /\ Len(transaction.instructions[1].keys) = Len(BuiltKeys) + 2

(***************************************************************************)
(* C8.  On success the transaction's first instruction is the transfer;    *)
(* with a memo (the empty string included) there are exactly two           *)
(* instructions, the second to the memo program with no accounts and the   *)
(* memo's UTF-8 bytes as data; without a memo there is exactly one.        *)
(***************************************************************************)
\* UTF-8 read back: one byte below 0x80, two bytes from 0xC0
RECURSIVE Utf8Decode(_)
Utf8Decode(bytes) ==
    IF bytes = << >> THEN << >>
    ELSE IF bytes[1] < 128 THEN <<bytes[1]>> \o Utf8Decode(Tail(bytes))
    ELSE <<(bytes[1] - 192) * 64 + (bytes[2] - 128)>> \o Utf8Decode(Tail(Tail(bytes)))

C8_MemoSecond ==
    pc = "returned" =>
        LET ixs == transaction.instructions
        IN  /\ ixs[1] = instruction
            /\ ixs[1].programId = (IF token = Null THEN SYSTEM_PROGRAM_ID
                                   ELSE TOKEN_PROGRAM_ID)
            /\ memo = Null => Len(ixs) = 1
            /\ memo # Null =>
                  /\ Len(ixs) = 2
                  /\ ixs[2].programId = MEMO_PROGRAM_ID
                  /\ ixs[2].keys = << >>
                  /\ \A b \in 1..Len(ixs[2].data) : ixs[2].data[b] \in 0..255
                  /\ Utf8Decode(ixs[2].data) = memo.text
                  /\ Len(ixs[2].data) >= Len(memo.text)

\* the empty memo still makes a second instruction
C8_Witness ==
    /\ pc = "returned" /\ memo = [text |-> << >>]
    /\ Len(transaction.instructions) = 2

(***************************************************************************)
(* C9.  On the token branch, when the recipient's associated token account *)
(* is looked up and absent, the call has thrown RECIPIENT_ATA_NOT_FOUND    *)
(* and holds no transaction, although payer, recipient, mint and payer ATA *)
(* passed their checks and the payer's token balance covers the amount.    *)
(***************************************************************************)
C9_RecipientATANotFound ==
    (Answered("recipientATA") /\ recipientATAInfo = Null) =>
        /\ pc = "thrown" /\ error = "RECIPIENT_ATA_NOT_FOUND"
        /\ instruction = Null /\ transaction = Null
        /\ payerInfo # Null /\ recipientInfo # Null /\ mint # Null /\ payerATAInfo # Null
        /\ Gte(payerATAInfo.data.amount, tokens)

\* the payer holds more than the amount
C9_Witness ==
    /\ error = "RECIPIENT_ATA_NOT_FOUND"
    /\ Gt(payerATAInfo.data.amount, tokens)

(***************************************************************************)
(* C10.  The lookups issued so far.  Common part of the claim as stated    *)
(* and as amended: their roles are a prefix of payer, recipient, token,    *)
(* payer ATA, recipient ATA (at most 2 without a token, at most 5 with     *)
(* one); each targets the address of its role; a lookup is issued only     *)
(* after the previous one has been answered and its not-found check has    *)
(* passed; and the lookup in flight, if any, is the last one issued.       *)
(***************************************************************************)
NotFoundKind(role) ==
    CASE role = "payer"        -> "PAYER_NOT_FOUND"
      [] role = "recipient"    -> "RECIPIENT_NOT_FOUND"
      [] role = "token"        -> "TOKEN_NOT_FOUND"
      [] role = "payerATA"     -> "PAYER_ATA_NOT_FOUND"
      [] role = "recipientATA" -> "RECIPIENT_ATA_NOT_FOUND"

AddressOf(role) ==
    CASE role = "payer"        -> payer
      [] role = "recipient"    -> recipient
      [] role = "token"        -> token
      [] role = "payerATA"     ->
            [ata |-> <<ASSOCIATED_TOKEN_PROGRAM_ID, TOKEN_PROGRAM_ID, token.key, payer.key>>]
      [] role = "recipientATA" ->
            [ata |-> <<ASSOCIATED_TOKEN_PROGRAM_ID, TOKEN_PROGRAM_ID, token.key,
                       recipient.key>>]

SequentialLookups ==
    /\ Len(Lookups) <= (IF token = Null THEN 2 ELSE 5)
    /\ \A i \in 1..Len(Lookups) :
          /\ Lookups[i].arg = LookupOrder[i]
          /\ Lookups[i].address = AddressOf(Lookups[i].arg)
    /\ \A i \in 1..(Len(trace) - 1) :
          IsQuery(trace[i]) =>
              \/ trace[i + 1] = Passed(NotFoundKind(trace[i].arg))
              \/ trace[i + 1] = Thrown(NotFoundKind(trace[i].arg))
              \/ trace[i + 1] = Step("reject", trace[i].arg)
    /\ pending # Null <=> (trace # << >> /\ IsQuery(trace[Len(trace)]))
    /\ pending # Null => pending = trace[Len(trace)]

\* C10 as stated: moreover no address is queried twice
C10_EachAddressOnce ==
    /\ SequentialLookups
    /\ \A i, j \in 1..Len(Lookups) : i # j => Lookups[i].address # Lookups[j].address

\* C10, amended: moreover no role is queried twice (no retry), and two
\* lookups share an address only when the caller passed one key as both
\* payer and recipient
C10_EachLookupOnce ==
    /\ SequentialLookups
    /\ \A i, j \in 1..Len(Lookups) :
          i # j =>
              /\ Lookups[i].arg # Lookups[j].arg
              /\ Lookups[i].address = Lookups[j].address =>
                    /\ recipient = payer
                    /\ { Lookups[i].arg, Lookups[j].arg }
                          \in { { "payer", "recipient" }, { "payerATA", "recipientATA" } }

\* a token call that ran all five lookups
C10_Witness ==
    /\ pc = "returned" /\ token # Null /\ Len(Lookups) = 5

(***************************************************************************)
(* C12.  The stage each performed step belongs to.  The party lookups and  *)
(* their checks are ResolvingParties; the native checks, conversion and    *)
(* transfer are NativeBranch; the mint and token-account lookups, checks,  *)
(* conversion and transfer are TokenBranch; the references, the            *)
(* transaction and the memo are Assembling; the return is Done; a throw or *)
(* a rejected lookup is Failed.                                            *)
(***************************************************************************)
StageOfStep(e) ==
    IF IsFailure(e) THEN "Failed"
    ELSE IF e.op = "return" THEN "Done"
    ELSE IF e.op \in { "references", "Transaction", "memo" } THEN "Assembling"
    ELSE IF e.op = "getAccountInfo"
    THEN (IF e.arg \in { "payer", "recipient" } THEN "ResolvingParties" ELSE "TokenBranch")
    ELSE IF e.op = "getAssociatedTokenAddress" THEN "TokenBranch"
    ELSE IF e.op = "convert"
    THEN (IF e.arg = "lamports" THEN "NativeBranch" ELSE "TokenBranch")
    ELSE IF e.op = "instruction"
    THEN (IF e.arg = "SystemProgram.transfer" THEN "NativeBranch" ELSE "TokenBranch")
    ELSE IF e.arg \in { "PAYER_NOT_FOUND", "RECIPIENT_NOT_FOUND" } THEN "ResolvingParties"
    ELSE IF e.arg = "PAYER_INSUFFICIENT_FUNDS" THEN "NativeBranch"
    ELSE IF e.arg = "AMOUNT_INVALID_DECIMALS"
    THEN (IF token = Null THEN "NativeBranch" ELSE "TokenBranch")
    ELSE "TokenBranch"

StageAt(i) == StageOfStep(trace[i])

Entered(stage) == \E i \in 1..Len(trace) : StageAt(i) = stage

StageSuccessors(stage) ==
    CASE stage = "ResolvingParties" ->
              { "ResolvingParties", "NativeBranch", "TokenBranch", "Failed" }
      [] stage = "NativeBranch"     -> { "NativeBranch", "Assembling", "Failed" }
      [] stage = "TokenBranch"      -> { "TokenBranch", "Assembling", "Failed" }
      [] stage = "Assembling"       -> { "Assembling", "Done", "Failed" }
      [] stage = "Done"             -> { }
      [] stage = "Failed"           -> { }

\* the stage the invocation rests in between two steps of the model
Stage ==
    CASE pc = "idle"                                   -> "NotStarted"
      [] pc \in { "awaitPayerInfo", "awaitRecipientInfo" } -> "ResolvingParties"
      [] pc = "returned"                               -> "Done"
      [] pc = "thrown"                                 -> "Failed"
      [] OTHER                                         -> "TokenBranch"

StagesForward ==
    /\ trace # << >> => StageAt(1) = "ResolvingParties"
    /\ \A i \in 1..(Len(trace) - 1) : StageAt(i + 1) \in StageSuccessors(StageAt(i))
    /\ ~(Entered("NativeBranch") /\ Entered("TokenBranch"))
    /\ Entered("NativeBranch") => token = Null
    /\ Entered("TokenBranch") => token # Null
    /\ \A i \in 1..Len(trace) :
          StageAt(i) = "Assembling" =>
              /\ Entered("NativeBranch") \/ Entered("TokenBranch")
              /\ \E j \in 1..(i - 1) : trace[j].op = "instruction"
    /\ Cardinality({ i \in 1..Len(trace) : StageAt(i) = "Failed" }) <= 1
    /\ Entered("Failed") <=> error # NoError
    /\ trace # << >> => Stage = StageAt(Len(trace))

\* a step is taken from a non-terminal stage and only adds to what was performed
StepForward ==
    /\ ~Terminated
    /\ Len(trace') > Len(trace)
    /\ SubSeq(trace', 1, Len(trace)) = trace

(***************************************************************************)
(* C12.  The stage only moves forward: ResolvingParties, then exactly one  *)
(* of NativeBranch and TokenBranch, then Assembling, then Done, or from a  *)
(* non-terminal stage to Failed with one error.  No stage is revisited,    *)
(* Assembling comes only after a branch has built its transfer             *)
(* instruction, and no step is taken from Done or from Failed.             *)
(***************************************************************************)
C12_StagesForward == []StagesForward /\ [][StepForward]_vars

\* a native payment that went through every stage up to Done
C12_Witness ==
    /\ pc = "returned" /\ Entered("ResolvingParties") /\ Entered("NativeBranch")
    /\ Entered("Assembling") /\ Entered("Done") /\ memo # Null

(***************************************************************************)
(* C13.  A payer answered absent makes the call throw PAYER_NOT_FOUND      *)
(* with the recipient never looked up; a recipient answered absent (the    *)
(* payer then exists) makes it throw RECIPIENT_NOT_FOUND with nothing      *)
(* looked up after; and every other error kind is thrown only after both   *)
(* accounts were found and both checks passed, whatever the amount, the    *)
(* token, the mint and the balances.                                       *)
(***************************************************************************)
PartyErrors == { "PAYER_NOT_FOUND", "RECIPIENT_NOT_FOUND" }

C13_PartiesFirst ==
    /\ Answered("payer") /\ payerInfo = Null =>
          /\ pc = "thrown" /\ error = "PAYER_NOT_FOUND"
          /\ Len(Lookups) = 1 /\ recipientInfo = Null
          /\ trace = <<Query("payer", payer), Thrown("PAYER_NOT_FOUND")>>
    /\ Answered("recipient") /\ recipientInfo = Null =>
          /\ pc = "thrown" /\ error = "RECIPIENT_NOT_FOUND"
          /\ payerInfo # Null /\ Len(Lookups) = 2
          /\ trace[Len(trace)] = Thrown("RECIPIENT_NOT_FOUND")
    /\ error \in CreateTransactionError \ PartyErrors =>
          /\ payerInfo # Null /\ recipientInfo # Null
          /\ \E i, j \in 1..Len(trace) :
                /\ i < j /\ j < Len(trace)
                /\ trace[i] = Passed("PAYER_NOT_FOUND")
                /\ trace[j] = Passed("RECIPIENT_NOT_FOUND")
    /\ error = "PAYER_NOT_FOUND" => Answered("payer") /\ payerInfo = Null
    /\ error = "RECIPIENT_NOT_FOUND" => Answered("recipient") /\ recipientInfo = Null

\* the recipient is absent, and the amount has too many digits for a payer with no funds
C13_Witness ==
    /\ error = "RECIPIENT_NOT_FOUND" /\ token = Null
    /\ decimalPlaces(amountIn) > SOL_DECIMALS
    /\ payerInfo # Null /\ IsZero(payerInfo.lamports)

(***************************************************************************)
(* C14.  Vocabulary: the mint has passed its four checks; the position of  *)
(* a check in the order of the claim; the payer's token balance.           *)
(***************************************************************************)
MintValidated == \E i \in 1..Len(trace) : trace[i] = Passed("TOKEN_MINT_NOT_INITIALIZED")

TokenCheckOrder ==
    <<"AMOUNT_INVALID_DECIMALS", "PAYER_ATA_NOT_FOUND", "PAYER_ATA_INSUFFICIENT_FUNDS",
      "RECIPIENT_ATA_NOT_FOUND">>

NativeCheckOrder == <<"AMOUNT_INVALID_DECIMALS", "PAYER_INSUFFICIENT_FUNDS">>

IsCheck(e) == e.op \in { "check", "throw" }

\* the checks of `order` were performed in that order, each at most once,
\* and none was skipped: a check is performed only after the one before it
InOrder(order) ==
    \A i \in 1..Len(trace) : \A k \in 1..Len(order) :
        IsCheck(trace[i]) /\ trace[i].arg = order[k] =>
            /\ \A j \in 1..Len(trace) :
                  IsCheck(trace[j]) /\ trace[j].arg = order[k] => j = i
            /\ k > 1 => \E j \in 1..(i - 1) : trace[j] = Passed(order[k - 1])

PayerTokenBalance == AccountLayoutDecode(payerATAInfo.data).amount

(***************************************************************************)
(* C14.  On the token branch, once the mint is validated, the checks run   *)
(* in the order precision, payer ATA existence, payer ATA balance,         *)
(* recipient ATA existence, and the first that fails decides the error:    *)
(* too many digits gives AMOUNT_INVALID_DECIMALS with no token account     *)
(* looked up; an absent payer ATA gives PAYER_ATA_NOT_FOUND; a balance     *)
(* below the amount gives PAYER_ATA_INSUFFICIENT_FUNDS with the recipient  *)
(* ATA never derived or looked up.  On the native branch too many digits   *)
(* gives AMOUNT_INVALID_DECIMALS whatever the payer's balance.             *)
(***************************************************************************)
C14_CheckOrder ==
    /\ token # Null => InOrder(TokenCheckOrder)
    /\ token = Null => InOrder(NativeCheckOrder)
    /\ MintValidated =>
          IF decimalPlaces(amountIn) > mint.decimals
          THEN error = "AMOUNT_INVALID_DECIMALS" /\ Len(Lookups) = 3
          ELSE Answered("payerATA") =>
                  IF payerATAInfo = Null
                  THEN error = "PAYER_ATA_NOT_FOUND" /\ Len(Lookups) = 4
                  ELSE IF Gt(ExactInteger(amountIn, mint.decimals), PayerTokenBalance)
                  THEN /\ error = "PAYER_ATA_INSUFFICIENT_FUNDS"
                       /\ Len(Lookups) = 4
                       /\ recipientATA = Null /\ recipientATAInfo = Null
                       /\ ~\E i \in 1..Len(trace) : trace[i].arg = "recipientATA"
                  ELSE Answered("recipientATA") /\ recipientATAInfo = Null =>
                          error = "RECIPIENT_ATA_NOT_FOUND"
    /\ token = Null /\ Answered("recipient") /\ recipientInfo # Null
          /\ decimalPlaces(amountIn) > SOL_DECIMALS =>
              error = "AMOUNT_INVALID_DECIMALS"

\* the payer's token balance is short of the amount: the recipient ATA was not asked for
C14_Witness ==
    /\ error = "PAYER_ATA_INSUFFICIENT_FUNDS" /\ Len(Lookups) = 4
    /\ Gt(ExactInteger(amountIn, mint.decimals), PayerTokenBalance)

(***************************************************************************)
(* C15.  What the two branches leave alone and what they build.  Without a *)
(* token only the payer and the recipient are looked up, nothing of the    *)
(* token branch is derived, decoded or converted, and the instruction of a *)
(* returned transaction is the system program's transfer from the payer    *)
(* to the recipient.  With a token the payer's lamports are never          *)
(* converted to or compared, PAYER_INSUFFICIENT_FUNDS is neither checked   *)
(* nor thrown, and the instruction of a returned transaction is the token  *)
(* program's checked transfer from the payer's ATA to the recipient's ATA, *)
(* of the mint, with the payer as the signing owner.                       *)
(***************************************************************************)
NativeErrors ==
    { "PAYER_NOT_FOUND", "RECIPIENT_NOT_FOUND", "AMOUNT_INVALID_DECIMALS",
      "PAYER_INSUFFICIENT_FUNDS" }

NativeFrame ==
    /\ \A i \in 1..Len(Lookups) : Lookups[i].arg \in { "payer", "recipient" }
    /\ ~Performed("getAssociatedTokenAddress")
    /\ \A i \in 1..Len(trace) : trace[i].arg # "tokens"
    /\ tokenInfo = Null /\ mint = Null /\ tokens = Null
    /\ payerATA = Null /\ payerATAInfo = Null
    /\ recipientATA = Null /\ recipientATAInfo = Null
    /\ pc = "returned" =>
          /\ instruction.programId = SYSTEM_PROGRAM_ID
          /\ instruction.data = [instruction |-> "Transfer", lamports |-> lamports]
          /\ SubSeq(instruction.keys, 1, 2) =
                <<AccountMeta(payer, TRUE, TRUE), AccountMeta(recipient, FALSE, TRUE)>>

TokenFrame ==
    /\ lamports = Null
    /\ error # "PAYER_INSUFFICIENT_FUNDS"
    /\ \A i \in 1..Len(trace) :
          trace[i].arg \notin { "PAYER_INSUFFICIENT_FUNDS", "lamports",
                                "SystemProgram.transfer" }
    /\ pc = "returned" =>
          /\ instruction.programId = TOKEN_PROGRAM_ID
          /\ instruction.data = [instruction |-> "TransferChecked", amount |-> tokens,
                                 decimals |-> mint.decimals]
          /\ SubSeq(instruction.keys, 1, 4) =
                <<AccountMeta(AddressOf("payerATA"), FALSE, TRUE),
                  AccountMeta(token, FALSE, FALSE),
                  AccountMeta(AddressOf("recipientATA"), FALSE, TRUE),
                  AccountMeta(payer, TRUE, FALSE)>>

\* C15 as stated: moreover a call without a token fails with one of four kinds only
C15_FourErrorsOnly ==
    /\ token = Null /\ pc # "idle" => NativeFrame
    /\ token # Null => TokenFrame
    /\ token = Null /\ pc = "thrown" => error \in NativeErrors

(***************************************************************************)
(* C15, amended.  The two branches are isolated as above, and a call       *)
(* without a token fails with PAYER_NOT_FOUND, RECIPIENT_NOT_FOUND,        *)
(* AMOUNT_INVALID_DECIMALS or PAYER_INSUFFICIENT_FUNDS, or with the        *)
(* failure of its payer or recipient lookup, and with nothing else.        *)
(***************************************************************************)
C15_BranchesIsolated ==
    /\ token = Null /\ pc # "idle" => NativeFrame
    /\ token # Null => TokenFrame
    /\ token = Null /\ pc = "thrown" =>
          \/ error \in NativeErrors
          \/ /\ error = "LEDGER_CLIENT_FAILURE"
             /\ trace[Len(trace)] \in { Step("reject", "payer"), Step("reject", "recipient") }

\* a returned token payment between two different parties
C15_Witness ==
    /\ pc = "returned" /\ token # Null /\ recipient # payer
    /\ instruction.programId = TOKEN_PROGRAM_ID

(***************************************************************************)
(* C16.  Vocabulary: a lookup has failed; what the account variable of a   *)
(* role holds.                                                             *)
(***************************************************************************)
LookupFailed == Performed("reject")

InfoOf(role) ==
    CASE role = "payer"        -> payerInfo
      [] role = "recipient"    -> recipientInfo
      [] role = "token"        -> tokenInfo
      [] role = "payerATA"     -> payerATAInfo
      [] role = "recipientATA" -> recipientATAInfo

LookupFailureAborts ==
    \A i \in 1..Len(trace) :
        trace[i].op = "reject" =>
            /\ i = Len(trace)
            /\ i > 1 /\ IsQuery(trace[i - 1]) /\ trace[i - 1].arg = trace[i].arg
            /\ pc = "thrown" /\ error = "LEDGER_CLIENT_FAILURE" /\ pending = Null
            /\ instruction = Null /\ transaction = Null
            /\ Cardinality({ j \in 1..Len(trace) :
                               IsQuery(trace[j]) /\ trace[j].arg = trace[i].arg }) = 1
            /\ Lookups[Len(Lookups)].arg = trace[i].arg
            /\ \A k \in 1..Len(LookupOrder) :
                  k >= Len(Lookups) => InfoOf(LookupOrder[k]) = Null

(***************************************************************************)
(* C16.  When an awaited ledger lookup fails, the invocation ends there:   *)
(* the call has thrown with that failure, the rejection directly follows   *)
(* the lookup and is the last step performed, that lookup was issued once  *)
(* (no retry), no account was received from it or from a later lookup, no  *)
(* instruction or transaction exists, and no step is ever taken after it.  *)
(***************************************************************************)
C16_LookupFailureAborts == []LookupFailureAborts /\ [][~LookupFailed]_vars

\* the last of the five lookups of a token payment fails
C16_Witness ==
    /\ LookupFailed /\ trace[Len(trace)] = Step("reject", "recipientATA")
    /\ Len(Lookups) = 5 /\ payerATAInfo # Null /\ tokens # Null

(***************************************************************************)
(* C17.  Every returned transaction moves a non-negative integer amount    *)
(* within the balance read in the invocation: its transfer instruction     *)
(* carries n with 0 <= n <= the payer's lamports (native) or the payer     *)
(* ATA's token balance (token), for every input amount, negative ones too. *)
(***************************************************************************)
Moved == IF token = Null THEN instruction.data.lamports ELSE instruction.data.amount

BalanceRead == IF token = Null THEN payerInfo.lamports ELSE PayerTokenBalance

C17_AmountWithinBalance ==
    pc = "returned" =>
        /\ Moved.frac = << >>
        /\ ~Moved.neg
        /\ Gte(BalanceRead, Moved)

=============================================================================
